---- MODULE Spec2Model ----
(***************************************************************************)
(* Model of src/server.py: the ILHealth gateway.  Four tool handlers       *)
(* (get_available_subjects, get_metadata, get_data, get_links) over a      *)
(* static subject table and one shared HTTP client.                        *)
(*                                                                         *)
(* Python / JSON values are tagged records [t, v]:                         *)
(*   "str"  v = sequence of symbols     "list" v = sequence of values      *)
(*   "dict" v = function key -> value   "num" / "bool" / "null" scalars    *)
(* A symbol of a string is one whitespace character, or a piece of text    *)
(* that neither begins nor ends with whitespace.                           *)
(***************************************************************************)
EXTENDS Integers, Sequences, FiniteSets, TLC

VARIABLES SUBJECTS_INFO, SUBJECTS, client, calls, requests, T, cleaned, recleaned, phase

vars == <<SUBJECTS_INFO, SUBJECTS, client, calls, requests, T, cleaned, recleaned, phase>>

gatewayVars == <<SUBJECTS_INFO, SUBJECTS, client, calls, requests>>

trimVars == <<T, cleaned, recleaned, phase>>

(***************************************************************************)
(* Bounds of the model.                                                    *)
(***************************************************************************)
MaxStrLen == 3

MaxLen == 2

NumCalls == 2

(***************************************************************************)
(* JSON / Python values.                                                   *)
(***************************************************************************)
Str(s) == [t |-> "str", v |-> s]

Num(n) == [t |-> "num", v |-> n]

Bool(b) == [t |-> "bool", v |-> b]

None == [t |-> "null", v |-> <<>>]

List(xs) == [t |-> "list", v |-> xs]

Dict(f) == [t |-> "dict", v |-> f]

Whitespace == {" ", "\n"}

Chars == {" ", "\n", "x"}

\* str.lstrip(): drop the leading whitespace
RECURSIVE lstrip(_)
lstrip(s) ==
    IF s = <<>> THEN s
    ELSE IF Head(s) \in Whitespace THEN lstrip(Tail(s))
    ELSE s

\* str.rstrip(): drop the trailing whitespace
RECURSIVE rstrip(_)
rstrip(s) ==
    IF s = <<>> THEN s
    ELSE IF s[Len(s)] \in Whitespace THEN rstrip(SubSeq(s, 1, Len(s) - 1))
    ELSE s

\* a strip that drops one whitespace character at each end, not all of them
strip_one_each_end(s) ==
    LET l == IF s # <<>> /\ Head(s) \in Whitespace THEN Tail(s) ELSE s IN
    IF l # <<>> /\ l[Len(l)] \in Whitespace THEN SubSeq(l, 1, Len(l) - 1) ELSE l

\* str.strip() on the symbols of a string
strip(s) == rstrip(lstrip(s))

\* a clean_json whose string branch calls lstrip() instead of strip()
RECURSIVE clean_json_lstrip_only(_)
clean_json_lstrip_only(obj) ==
    IF obj.t = "dict" THEN Dict([k \in DOMAIN obj.v |-> clean_json_lstrip_only(obj.v[k])])
    ELSE IF obj.t = "list" THEN List([i \in 1..Len(obj.v) |-> clean_json_lstrip_only(obj.v[i])])
    ELSE IF obj.t = "str" THEN Str(lstrip(obj.v))
    ELSE obj

\* clean_json of get_metadata
RECURSIVE clean_json_get_metadata(_)
clean_json_get_metadata(obj) ==
    IF obj.t = "dict" THEN Dict([k \in DOMAIN obj.v |-> clean_json_get_metadata(obj.v[k])])
    ELSE IF obj.t = "list" THEN List([i \in 1..Len(obj.v) |-> clean_json_get_metadata(obj.v[i])])
    ELSE IF obj.t = "str" THEN Str(strip(obj.v))
    ELSE obj

\* clean_json of get_data
RECURSIVE clean_json_get_data(_)
clean_json_get_data(obj) ==
    IF obj.t = "dict" THEN Dict([k \in DOMAIN obj.v |-> clean_json_get_data(obj.v[k])])
    ELSE IF obj.t = "list" THEN List([i \in 1..Len(obj.v) |-> clean_json_get_data(obj.v[i])])
    ELSE IF obj.t = "str" THEN Str(strip(obj.v))
    ELSE obj

\* a clean_json without the list branch: the items of a list are returned as they are
RECURSIVE clean_json_no_list_branch(_)
clean_json_no_list_branch(obj) ==
    IF obj.t = "dict" THEN Dict([k \in DOMAIN obj.v |-> clean_json_no_list_branch(obj.v[k])])
    ELSE IF obj.t = "str" THEN Str(strip(obj.v))
    ELSE obj

\* clean_json of get_links
RECURSIVE clean_json_get_links(_)
clean_json_get_links(obj) ==
    IF obj.t = "dict" THEN Dict([k \in DOMAIN obj.v |-> clean_json_get_links(obj.v[k])])
    ELSE IF obj.t = "list" THEN List([i \in 1..Len(obj.v) |-> clean_json_get_links(obj.v[i])])
    ELSE IF obj.t = "str" THEN Str(strip(obj.v))
    ELSE obj

Copies == {"get_metadata", "get_data", "get_links"}

\* the copy of clean_json that handler f defines
clean_json(f, obj) ==
    CASE f = "get_metadata" -> clean_json_get_metadata(obj)
      [] f = "get_data" -> clean_json_get_data(obj)
      [] f = "get_links" -> clean_json_get_links(obj)

(***************************************************************************)
(* The JSON trees the trim pass is run on.                                 *)
(***************************************************************************)
SeqsUpTo(S, n) == UNION {[1..k -> S] : k \in 0..n}

Strings == {Str(s) : s \in SeqsUpTo(Chars, MaxStrLen)}

Leaves == Strings \cup {Num(7), Bool(TRUE), None}

Keys == {"a", " b"}

\* lists and mappings whose members are drawn from S
Flat(S) ==
    {List(xs) : xs \in SeqsUpTo(S, MaxLen)}
    \cup UNION {{Dict(f) : f \in [D -> S]} : D \in SUBSET Keys}

CoreLeaves == {Str(<<"\n", "x", " ", "x", " ">>), Num(7)}

TreeSet == Leaves \cup Flat(CoreLeaves \cup Flat(CoreLeaves))

(***************************************************************************)
(* Module-level state of server.py.                                        *)
(***************************************************************************)
METADATA_BASE_URL == "https://datadashboard.health.gov.il/api/content/dashboard"

DATA_BASE_URL == "https://datadashboard.health.gov.il/api"

\* the SUBJECTS_INFO literal: an insertion-ordered dict, one entry per subject
SubjectCatalog ==
    << [id |-> "warCasualties", name |-> "War Casualties",
        description |-> "Information about war-related medical cases and emergency support contacts"],
       [id |-> "medicalServices", name |-> "Medical Services Availability",
        description |-> "Information about availability of various medical services including pharmacies, HMO services, family health centers"],
       [id |-> "beaches", name |-> "Beaches",
        description |-> "Information about beach conditions and facilities"],
       [id |-> "HMO_insured_main", name |-> "HMO Insurance",
        description |-> "Information about health insurance through HMOs"],
       [id |-> "childKi", name |-> "Child Development",
        description |-> "Information about child development services"],
       [id |-> "childCheckup", name |-> "Child Checkups",
        description |-> "Information about child medical checkup services"],
       [id |-> "serviceQuality", name |-> "Service Quality",
        description |-> "Quality measurements, patient experience surveys, and service complaints across medical facilities"] >>

\* list(d.keys())
keys(d) == [i \in 1..Len(d) |-> d[i].id]

\* x in lst, for a Python list
In(x, lst) == \E i \in 1..Len(lst) : lst[i] = x

\* httpx.Client(timeout=30.0)
Client == [timeout |-> 30, is_closed |-> FALSE]

(***************************************************************************)
(* Python helpers used by the handlers.                                    *)
(***************************************************************************)
Min(S) == CHOOSE x \in S : \A y \in S : x <= y

RECURSIVE SetToSeq(_)
SetToSeq(S) ==
    IF S = {} THEN <<>>
    ELSE LET x == CHOOSE y \in S : TRUE IN <<x>> \o SetToSeq(S \ {x})

\* bool(x)
Truthy(x) ==
    CASE x.t = "str" -> x.v # <<>>
      [] x.t = "list" -> x.v # <<>>
      [] x.t = "dict" -> DOMAIN x.v # {}
      [] x.t = "num" -> x.v # 0
      [] x.t = "bool" -> x.v
      [] OTHER -> FALSE

\* d.get(k, default), d a dict
get(d, k, default) == IF k \in DOMAIN d.v THEN d.v[k] ELSE default

\* iter(x) is defined
Iterable(x) == x.t \in {"list", "str", "dict"}

\* the items a for loop over x visits
Iter(x) ==
    CASE x.t = "list" -> x.v
      [] x.t = "str" -> [i \in 1..Len(x.v) |-> Str(<<x.v[i]>>)]
      [] x.t = "dict" -> LET ks == SetToSeq(DOMAIN x.v) IN [i \in 1..Len(ks) |-> Str(<<ks[i]>>)]

\* what a call ends with: "success" and the returned envelope, or the exception raised
Return(envelope) == [result |-> "success", envelope |-> envelope]

Raise(exception) == [result |-> exception, envelope |-> None]

Pending == [result |-> "pending", envelope |-> None]

(***************************************************************************)
(* The upstream: what client.get(url) comes back with.                     *)
(***************************************************************************)
NoResponse == [kind |-> "none", status |-> 0, parses |-> FALSE, body |-> None]

Ok(body) == [kind |-> "http", status |-> 200, parses |-> TRUE, body |-> body]

Status(code) == [kind |-> "http", status |-> code, parses |-> TRUE, body |-> Dict([error |-> Str(<<" ", "x">>)])]

NotJson == [kind |-> "http", status |-> 200, parses |-> FALSE, body |-> None]

Timeout == [kind |-> "timeout", status |-> 0, parses |-> FALSE, body |-> None]

\* a status check that raises on server errors only
raise_for_status_5xx_only(r) == r.status >= 500

\* response.raise_for_status() raises
raise_for_status(r) == r.status >= 400

\* client.get(url); response.raise_for_status(); response.json(): the exception
\* raised, or "none"
FetchError(r) ==
    IF r.kind # "http" THEN "TransportError"
    ELSE IF raise_for_status(r) THEN "HTTPStatusError"
    ELSE IF ~r.parses THEN "JSONDecodeError"
    ELSE "none"

(***************************************************************************)
(* get_metadata, after the validation and the request.                     *)
(***************************************************************************)
CardFields == <<"id", "endPointName", "apiSrc", "transportProject", "sectionId", "componentName">>

\* card[k].strip(): the exception it raises, or "none"
FieldError(card, k) ==
    IF card.t # "dict" THEN "TypeError"
    ELSE IF k \notin DOMAIN card.v THEN "KeyError"
    ELSE IF card.v[k].t # "str" THEN "AttributeError"
    ELSE "none"

\* the exception building cleaned_card raises, or "none"
CardError(card) ==
    LET bad == {i \in 1..Len(CardFields) : FieldError(card, CardFields[i]) # "none"} IN
    IF bad # {} THEN FieldError(card, CardFields[Min(bad)])
    ELSE LET link == get(card, "embedLink", None) IN
         IF Truthy(link) /\ link.t # "str" THEN "AttributeError" ELSE "none"

cleaned_card(card) ==
    Dict([id |-> Str(strip(card.v["id"].v)),
          endPointName |-> Str(strip(card.v["endPointName"].v)),
          apiSrc |-> Str(strip(card.v["apiSrc"].v)),
          transportProject |-> Str(strip(card.v["transportProject"].v)),
          section |-> Str(strip(card.v["sectionId"].v)),
          componentName |-> Str(strip(card.v["componentName"].v)),
          embedLink |-> IF Truthy(get(card, "embedLink", None))
                        THEN Str(strip(get(card, "embedLink", Str(<<>>)).v))
                        ELSE None])

cleaned_section(section) ==
    Dict([k \in DOMAIN section.v |->
            IF section.v[k].t = "str" THEN Str(strip(section.v[k].v)) ELSE section.v[k]])

get_metadata_body(json) ==
    LET metadata == clean_json_get_metadata(json) IN
    IF metadata.t # "dict" THEN Raise("AttributeError")
    ELSE LET cards == get(metadata, "cards", List(<<>>)) IN
    IF ~Iterable(cards) THEN Raise("TypeError")
    ELSE LET cs == Iter(cards)
             bad == {i \in 1..Len(cs) : CardError(cs[i]) # "none"} IN
    IF bad # {} THEN Raise(CardError(cs[Min(bad)]))
    ELSE LET sections == get(metadata, "sections", List(<<>>)) IN
    IF ~Iterable(sections) THEN Raise("TypeError")
    ELSE LET ss == Iter(sections) IN
    IF \E i \in 1..Len(ss) : ss[i].t # "dict" THEN Raise("AttributeError")
    ELSE Return(Dict([status |-> Str(<<"success">>),
                      data |-> Dict([availableEndpoints |-> List([i \in 1..Len(cs) |-> cleaned_card(cs[i])]),
                                     sections |-> List([i \in 1..Len(ss) |-> cleaned_section(ss[i])])])]))

(***************************************************************************)
(* get_data, after the validation and the request.                         *)
(***************************************************************************)
get_data_body(subject, transportProject, endPointName, json) ==
    LET data == clean_json_get_data(json) IN
    Return(Dict([status |-> Str(<<"success">>),
                 metadata |-> Dict([subject |-> Str(<<subject>>),
                                    transportProject |-> Str(transportProject),
                                    endpoint |-> Str(endPointName)]),
                 data |-> data]))

(***************************************************************************)
(* get_links, after the validation and the request.                        *)
(***************************************************************************)
\* link["sectionId"]: the exception it raises, or "none"
LinkError(link) ==
    IF link.t # "dict" THEN "TypeError"
    ELSE IF "sectionId" \notin DOMAIN link.v THEN "KeyError"
    ELSE "none"

\* [link for link in links if link["sectionId"] == sectionId]
filter_links(links, sectionId) ==
    LET ls == Iter(links)
        Matches(link) == link.v["sectionId"] = sectionId IN
    List(SelectSeq(ls, Matches))

get_links_body(sectionId, json) ==
    LET metadata == clean_json_get_links(json) IN
    IF metadata.t # "dict" THEN Raise("AttributeError")
    ELSE LET links == get(metadata, "links", List(<<>>))
             envelope(ls) == Dict([status |-> Str(<<"success">>), data |-> Dict([links |-> ls])]) IN
    IF ~Truthy(sectionId) THEN Return(envelope(links))
    ELSE IF ~Iterable(links) THEN Raise("TypeError")
    ELSE LET ls == Iter(links)
             bad == {i \in 1..Len(ls) : LinkError(ls[i]) # "none"} IN
    IF bad # {} THEN Raise(LinkError(ls[Min(bad)]))
    ELSE Return(envelope(filter_links(links, sectionId)))

(***************************************************************************)
(* The trim pass on its own: pick a tree, trim it, trim the result.        *)
(***************************************************************************)
NotRun == [f \in Copies |-> None]

TrimInit ==
    /\ T \in TreeSet
    /\ cleaned = NotRun
    /\ recleaned = NotRun
    /\ phase = "input"

CleanOnce ==
    /\ phase = "input"
    /\ cleaned' = [f \in Copies |-> clean_json(f, T)]
    /\ phase' = "once"
    /\ UNCHANGED <<T, recleaned>>

CleanTwice ==
    /\ phase = "once"
    /\ recleaned' = [f \in Copies |-> clean_json(f, cleaned[f])]
    /\ phase' = "twice"
    /\ UNCHANGED <<T, cleaned>>

(***************************************************************************)
(* The calls the host framework dispatches and the inputs it is given.     *)
(***************************************************************************)
CallIds == 1..NumCalls

Idle ==
    [op |-> "none", subject |-> "", transportProject |-> <<>>, endPointName |-> <<>>,
     sectionId |-> None, pc |-> "idle", response |-> NoResponse, outcome |-> Pending]

SubjectInputs == {"beaches", "not_a_subject"}

DataSubjectInputs == SubjectInputs \cup {"childKi"}

ProjectInputs == {<<"p1">>, <<" ", "p2">>}

EndPointInputs == {<<"ep1">>, <<"ep2", "\n">>}

SectionInputs == {None, Str(<<>>), Str(<<"S1">>)}

GoodCard ==
    Dict([id |-> Str(<<" ", "c1">>), endPointName |-> Str(<<"ep1", "\n">>),
          apiSrc |-> Str(<<"src">>), transportProject |-> Str(<<"p1">>),
          sectionId |-> Str(<<"S1", " ">>), componentName |-> Str(<<"chart">>),
          embedLink |-> Str(<<" ", "map", " ">>)])

NoIdCard ==
    Dict([endPointName |-> Str(<<"ep1">>), apiSrc |-> Str(<<"src">>),
          transportProject |-> Str(<<"p1">>), sectionId |-> Str(<<"S1">>),
          componentName |-> Str(<<"chart">>)])

SectionDoc == Dict([id |-> Str(<<"S1", " ">>), order |-> Num(1), tags |-> List(<<Str(<<" ", "t">>)>>)])

LinkDoc(sectionId, url) == Dict([sectionId |-> Str(sectionId), url |-> Str(url)])

MetadataDocs ==
    { Dict([cards |-> List(<<GoodCard>>), sections |-> List(<<SectionDoc>>),
            links |-> List(<<LinkDoc(<<" ", "S1">>, <<"u1", " ">>), LinkDoc(<<"S2">>, <<"u2">>),
                             LinkDoc(<<"S1">>, <<"\n", "u3">>), LinkDoc(<<" ">>, <<"u4">>)>>)]),
      Dict([cards |-> List(<<GoodCard, NoIdCard>>),
            links |-> List(<<LinkDoc(<<"S1">>, <<"u1">>), Dict([url |-> Str(<<"u5">>)])>>)]),
      Dict(<<>>),
      List(<<Str(<<" ", "x">>)>>) }

DataBodies ==
    { Dict([rows |-> List(<<Dict([name |-> Str(<<" ", "x", " ", "x", "\n">>), n |-> Num(7)])>>),
            title |-> Str(<<"\n", "x">>)]),
      Str(<<" ", "x", " ">>) }

Failures == {Status(500), Status(404), Timeout, NotJson}

MetadataResponses == {Ok(d) : d \in MetadataDocs} \cup Failures

DataResponses == {Ok(d) : d \in DataBodies} \cup Failures

\* f"{METADATA_BASE_URL}/{subject}"
metadata_url(subject) == <<METADATA_BASE_URL, "/", subject>>

\* f"{DATA_BASE_URL}/{endPointName}"
data_url(endPointName) == <<DATA_BASE_URL, "/">> \o endPointName

\* raise ValueError(...) of the subject check: the call ends before any request
Invalid(c, call) ==
    /\ calls' = [calls EXCEPT ![c] = [call EXCEPT !.pc = "done", !.outcome = Raise("ValueError")]]
    /\ UNCHANGED requests

\* client.get(url) goes out; the call blocks until the upstream answers
Request(c, call, url) ==
    /\ calls' = [calls EXCEPT ![c] = [call EXCEPT !.pc = "waiting"]]
    /\ requests' = [requests EXCEPT ![c] = Append(@, url)]

(***************************************************************************)
(* The handlers.                                                           *)
(***************************************************************************)
get_available_subjects(c) ==
    /\ calls[c].pc = "idle"
    /\ LET subjects == [i \in 1..Len(SUBJECTS_INFO) |->
                           Dict([id |-> Str(<<SUBJECTS_INFO[i].id>>),
                                 name |-> Str(<<SUBJECTS_INFO[i].name>>),
                                 description |-> Str(<<SUBJECTS_INFO[i].description>>)])]
           envelope == Dict([status |-> Str(<<"success">>),
                             data |-> Dict([subjects |-> List(subjects)])]) IN
       calls' = [calls EXCEPT ![c] = [Idle EXCEPT !.op = "get_available_subjects",
                                                  !.pc = "done", !.outcome = Return(envelope)]]
    /\ UNCHANGED <<SUBJECTS_INFO, SUBJECTS, client, requests, trimVars>>

\* get_metadata up to client.get(url)
get_metadata(c, subject) ==
    /\ calls[c].pc = "idle"
    /\ LET call == [Idle EXCEPT !.op = "get_metadata", !.subject = subject] IN
       IF ~In(subject, SUBJECTS) THEN Invalid(c, call)
       ELSE Request(c, call, metadata_url(subject))
    /\ UNCHANGED <<SUBJECTS_INFO, SUBJECTS, client, trimVars>>

\* a get_metadata that caches what it fetched in the subject's SUBJECTS_INFO entry
get_metadata_response_caching(c, r) ==
    /\ calls[c].pc = "waiting"
    /\ calls[c].op = "get_metadata"
    /\ calls' = [calls EXCEPT ![c].pc = "done", ![c].response = r,
                              ![c].outcome = IF FetchError(r) # "none" THEN Raise(FetchError(r))
                                             ELSE get_metadata_body(r.body)]
    /\ SUBJECTS_INFO' = [i \in 1..Len(SUBJECTS_INFO) |->
                            IF SUBJECTS_INFO[i].id = calls[c].subject /\ calls'[c].outcome.result = "success"
                            THEN [SUBJECTS_INFO[i] EXCEPT !.description = "cached"]
                            ELSE SUBJECTS_INFO[i]]
    /\ UNCHANGED <<SUBJECTS, client, requests, trimVars>>

\* a get_metadata that sends its request again when the first one failed
get_metadata_response_retry(c, r) ==
    /\ calls[c].pc = "waiting"
    /\ calls[c].op = "get_metadata"
    /\ IF (r.kind # "http" \/ r.status >= 400) /\ Len(requests[c]) < 2
       THEN /\ requests' = [requests EXCEPT ![c] = Append(@, metadata_url(calls[c].subject))]
            /\ UNCHANGED calls
       ELSE /\ calls' = [calls EXCEPT ![c].pc = "done", ![c].response = r,
                                      ![c].outcome = IF FetchError(r) # "none" THEN Raise(FetchError(r))
                                             ELSE get_metadata_body(r.body)]
            /\ UNCHANGED requests
    /\ UNCHANGED <<SUBJECTS_INFO, SUBJECTS, client, trimVars>>

\* get_metadata from the answer of client.get(url) to its end
get_metadata_response(c, r) ==
    /\ calls[c].pc = "waiting"
    /\ calls[c].op = "get_metadata"
    /\ calls' = [calls EXCEPT ![c].pc = "done", ![c].response = r,
                              ![c].outcome = IF FetchError(r) # "none" THEN Raise(FetchError(r))
                                             ELSE get_metadata_body(r.body)]
    /\ UNCHANGED <<SUBJECTS_INFO, SUBJECTS, client, requests, trimVars>>

\* a get_data that sends its request before it checks the subject
get_data_request_first(c, subject, transportProject, endPointName) ==
    /\ calls[c].pc = "idle"
    /\ LET call == [Idle EXCEPT !.op = "get_data", !.subject = subject,
                                !.transportProject = transportProject,
                                !.endPointName = endPointName] IN
       Request(c, call, data_url(endPointName))
    /\ UNCHANGED <<SUBJECTS_INFO, SUBJECTS, client, trimVars>>

\* a get_data that puts transportProject in the URL
get_data_project_in_url(c, subject, transportProject, endPointName) ==
    /\ calls[c].pc = "idle"
    /\ LET call == [Idle EXCEPT !.op = "get_data", !.subject = subject,
                                !.transportProject = transportProject,
                                !.endPointName = endPointName] IN
       IF ~In(subject, SUBJECTS) THEN Invalid(c, call)
       ELSE Request(c, call, <<DATA_BASE_URL, "/">> \o transportProject \o <<"/">> \o endPointName)
    /\ UNCHANGED <<SUBJECTS_INFO, SUBJECTS, client, trimVars>>

\* get_data up to client.get(url)
get_data(c, subject, transportProject, endPointName) ==
    /\ calls[c].pc = "idle"
    /\ LET call == [Idle EXCEPT !.op = "get_data", !.subject = subject,
                                !.transportProject = transportProject,
                                !.endPointName = endPointName] IN
       IF ~In(subject, SUBJECTS) THEN Invalid(c, call)
       ELSE Request(c, call, data_url(endPointName))
    /\ UNCHANGED <<SUBJECTS_INFO, SUBJECTS, client, trimVars>>

\* get_data from the answer of client.get(url) to its end
get_data_response(c, r) ==
    /\ calls[c].pc = "waiting"
    /\ calls[c].op = "get_data"
    /\ calls' = [calls EXCEPT ![c].pc = "done", ![c].response = r,
                              ![c].outcome = IF FetchError(r) # "none" THEN Raise(FetchError(r))
                                             ELSE get_data_body(calls[c].subject, calls[c].transportProject,
                                                                calls[c].endPointName, r.body)]
    /\ UNCHANGED <<SUBJECTS_INFO, SUBJECTS, client, requests, trimVars>>

\* get_links up to client.get(url)
get_links(c, subject, sectionId) ==
    /\ calls[c].pc = "idle"
    /\ LET call == [Idle EXCEPT !.op = "get_links", !.subject = subject,
                                !.sectionId = sectionId] IN
       IF ~In(subject, SUBJECTS) THEN Invalid(c, call)
       ELSE Request(c, call, metadata_url(subject))
    /\ UNCHANGED <<SUBJECTS_INFO, SUBJECTS, client, trimVars>>

\* get_links from the answer of client.get(url) to its end
get_links_response(c, r) ==
    /\ calls[c].pc = "waiting"
    /\ calls[c].op = "get_links"
    /\ calls' = [calls EXCEPT ![c].pc = "done", ![c].response = r,
                              ![c].outcome = IF FetchError(r) # "none" THEN Raise(FetchError(r))
                                             ELSE get_links_body(calls[c].sectionId, r.body)]
    /\ UNCHANGED <<SUBJECTS_INFO, SUBJECTS, client, requests, trimVars>>

(***************************************************************************)
(* The gateway: state after import of server.py, and its steps.            *)
(***************************************************************************)
GatewayInit ==
    /\ SUBJECTS_INFO = SubjectCatalog
    /\ SUBJECTS = keys(SubjectCatalog)
    /\ client = Client
    /\ calls = [c \in CallIds |-> Idle]
    /\ requests = [c \in CallIds |-> <<>>]

Init ==
    /\ GatewayInit
    /\ T = None
    /\ cleaned = NotRun
    /\ recleaned = NotRun
    /\ phase = "off"

Next ==
    \/ \E c \in CallIds : get_available_subjects(c)
    \/ \E c \in CallIds, subject \in SubjectInputs : get_metadata(c, subject)
    \/ \E c \in CallIds, r \in MetadataResponses : get_metadata_response(c, r)
    \/ \E c \in CallIds, subject \in DataSubjectInputs, transportProject \in ProjectInputs,
          endPointName \in EndPointInputs : get_data(c, subject, transportProject, endPointName)
    \/ \E c \in CallIds, r \in DataResponses : get_data_response(c, r)
    \/ \E c \in CallIds, subject \in SubjectInputs, sectionId \in SectionInputs :
          get_links(c, subject, sectionId)
    \/ \E c \in CallIds, r \in MetadataResponses : get_links_response(c, r)

Spec == Init /\ [][Next]_vars

TrimSpecInit == TrimInit /\ GatewayInit

TrimNext ==
    \/ CleanOnce /\ UNCHANGED gatewayVars
    \/ CleanTwice /\ UNCHANGED gatewayVars

TrimSpec == TrimSpecInit /\ [][TrimNext]_vars

(***************************************************************************)
(* Vocabulary of the properties.                                           *)
(***************************************************************************)
ToolOps == {"get_metadata", "get_data", "get_links"}

\* the subject of call c is a key of the catalog as written in the source
ValidSubject(c) == \E i \in 1..Len(SubjectCatalog) : SubjectCatalog[i].id = calls[c].subject

Started(c) == calls[c].pc # "idle"

Done(c) == calls[c].pc = "done"

Succeeded(c) == Done(c) /\ calls[c].outcome.result = "success"

UpstreamError == {"HTTPStatusError", "TransportError"}

\* the upstream answered with a non-success status, or the transport failed or timed out
IsUpstreamFailure(r) == r.kind = "timeout" \/ (r.kind = "http" /\ r.status \notin 200..299)

\* no string anywhere in x has whitespace at either end
RECURSIVE FullyCleaned(_)
FullyCleaned(x) ==
    CASE x.t = "str" -> x.v = <<>> \/ (x.v[1] \notin Whitespace /\ x.v[Len(x.v)] \notin Whitespace)
      [] x.t = "list" -> \A i \in 1..Len(x.v) : FullyCleaned(x.v[i])
      [] x.t = "dict" -> \A k \in DOMAIN x.v : FullyCleaned(x.v[k])
      [] OTHER -> TRUE

\* u is s with all of, and only, its leading and trailing whitespace removed
EndsTrimmed(s, u) ==
    \E i \in 0..Len(s), j \in 0..Len(s) :
        /\ i + j <= Len(s)
        /\ u = SubSeq(s, i + 1, Len(s) - j)
        /\ \A k \in 1..i : s[k] \in Whitespace
        /\ \A k \in (Len(s) - j + 1)..Len(s) : s[k] \in Whitespace
        /\ u # <<>> => (u[1] \notin Whitespace /\ u[Len(u)] \notin Whitespace)

\* b has the shape of a, the same non-string scalars, and end-trimmed strings
RECURSIVE Preserves(_, _)
Preserves(a, b) ==
    CASE a.t = "dict" -> /\ b.t = "dict"
                         /\ DOMAIN b.v = DOMAIN a.v
                         /\ \A k \in DOMAIN a.v : Preserves(a.v[k], b.v[k])
      [] a.t = "list" -> /\ b.t = "list"
                         /\ Len(b.v) = Len(a.v)
                         /\ \A i \in 1..Len(a.v) : Preserves(a.v[i], b.v[i])
      [] a.t = "str" -> b.t = "str" /\ EndsTrimmed(a.v, b.v)
      [] OTHER -> b = a

\* the links list of a get_links envelope
LinksOf(c) == calls[c].outcome.envelope.v["data"].v["links"]

(***************************************************************************)
(* C1: a get_metadata, get_data or get_links call whose subject is not a   *)
(* key of the catalog ends with ValueError (InvalidArgument) and has       *)
(* issued no outbound request, whatever its other arguments are.           *)
(***************************************************************************)
C1_InvalidSubjectFailsBeforeRequest ==
    \A c \in CallIds :
        (Started(c) /\ calls[c].op \in ToolOps /\ ~ValidSubject(c)) =>
            /\ Done(c)
            /\ calls[c].outcome = Raise("ValueError")
            /\ calls[c].response = NoResponse
            /\ requests[c] = <<>>

C1_Witness ==
    \E c, d \in CallIds :
        /\ calls[c].op = "get_data" /\ Done(c) /\ ~ValidSubject(c)
        /\ calls[c].transportProject = <<" ", "p2">>
        /\ calls[d].op = "get_links" /\ Done(d) /\ ~ValidSubject(d)

(***************************************************************************)
(* C2: the request of a get_data call is a GET of DATA_BASE_URL "/"        *)
(* endPointName: two get_data calls with the same endPointName request the *)
(* same URL whatever their subject and transportProject are, and           *)
(* transportProject shows only in metadata.transportProject of the         *)
(* returned envelope.                                                      *)
(***************************************************************************)
\* the outcome of a call, its echoed transportProject blanked
WithoutProject(o) ==
    IF o.result = "success"
    THEN [o EXCEPT !.envelope.v["metadata"].v["transportProject"] = None]
    ELSE o

C2_UrlFromEndPointNameOnly ==
    \A c, d \in CallIds :
        (calls[c].op = "get_data" /\ calls[d].op = "get_data" /\ ValidSubject(c) /\ ValidSubject(d)) =>
            /\ requests[c] = << <<DATA_BASE_URL, "/">> \o calls[c].endPointName >>
            /\ calls[c].endPointName = calls[d].endPointName => requests[c] = requests[d]
            /\ Succeeded(c) =>
                  calls[c].outcome.envelope.v["metadata"].v["transportProject"] = Str(calls[c].transportProject)
            /\ (/\ Done(c) /\ Done(d)
                /\ calls[c].subject = calls[d].subject
                /\ calls[c].endPointName = calls[d].endPointName
                /\ calls[c].response = calls[d].response)
               => WithoutProject(calls[c].outcome) = WithoutProject(calls[d].outcome)

C2_Witness ==
    \E c, d \in CallIds :
        /\ calls[c].op = "get_data" /\ calls[d].op = "get_data"
        /\ Succeeded(c) /\ Succeeded(d)
        /\ calls[c].subject # calls[d].subject
        /\ calls[c].transportProject # calls[d].transportProject
        /\ calls[c].endPointName = calls[d].endPointName
        /\ calls[c].response = calls[d].response

(***************************************************************************)
(* C3 (as claimed): for a valid subject and one upstream document, the     *)
(* links of get_links(subject, sectionId = S) are, in order, exactly the   *)
(* links of get_links(subject) whose sectionId equals S, for every S.      *)
(***************************************************************************)
C3_FilteredIsExactSublist ==
    \A c, d \in CallIds :
        (/\ calls[c].op = "get_links" /\ calls[d].op = "get_links"
         /\ Succeeded(c) /\ Succeeded(d)
         /\ calls[c].subject = calls[d].subject
         /\ calls[c].response = calls[d].response
         /\ calls[c].sectionId # None
         /\ calls[d].sectionId = None
         /\ LinksOf(d).t = "list"
         /\ \A i \in 1..Len(LinksOf(d).v) : LinkError(LinksOf(d).v[i]) = "none")
        => LET Equals(link) == link.v["sectionId"] = calls[c].sectionId IN
           LinksOf(c) = List(SelectSeq(LinksOf(d).v, Equals))

(***************************************************************************)
(* C4: trimming a trimmed tree changes nothing, and the three copies of    *)
(* clean_json give the same result on every tree.                          *)
(***************************************************************************)
C4_TrimIdempotent ==
    /\ phase \in {"once", "twice"} => \A f, g \in Copies : cleaned[f] = cleaned[g]
    /\ phase = "twice" => \A f \in Copies : recleaned[f] = cleaned[f]

C4_Witness ==
    /\ phase = "twice"
    /\ T.t = "dict"
    /\ \E k \in DOMAIN T.v : T.v[k].t = "list" /\ T.v[k].v # <<>>
    /\ cleaned["get_links"] # T

(***************************************************************************)
(* C5: the trimmed tree has the keys of every mapping, the length and      *)
(* order of every sequence and the non-string scalars of the input, and    *)
(* every string leaf is the input's leaf without its leading and trailing  *)
(* whitespace (internal whitespace kept); the pass ends on every tree.     *)
(***************************************************************************)
C5_TrimPreservesStructure ==
    phase \in {"once", "twice"} =>
        /\ Preserves(T, cleaned["get_metadata"])
        /\ FullyCleaned(cleaned["get_metadata"])

C5_Witness ==
    /\ phase = "once"
    /\ T.t = "list"
    /\ Len(T.v) = 2
    /\ T.v[1] = Dict([a |-> Str(<<"\n", "x", " ", "x", " ">>)])
    /\ T.v[2] = Num(7)
    /\ cleaned["get_metadata"].v[1] = Dict([a |-> Str(<<"x", " ", "x">>)])

(***************************************************************************)
(* C6: when the upstream answers a get_metadata, get_data or get_links     *)
(* call with a non-success status, or the transport fails or times out,    *)
(* the call ends with an UpstreamError and no envelope, and the step       *)
(* leaves SUBJECTS_INFO, SUBJECTS, the client, the request log and every   *)
(* other call as they were.                                                *)
(***************************************************************************)
C6_Step ==
    \A c \in CallIds :
        (calls[c].pc = "waiting" /\ calls'[c].pc = "done" /\ IsUpstreamFailure(calls'[c].response)) =>
            /\ calls'[c].outcome.result \in UpstreamError
            /\ calls'[c].outcome.envelope = None
            /\ SUBJECTS_INFO' = SUBJECTS_INFO
            /\ SUBJECTS' = SUBJECTS
            /\ client' = client
            /\ requests' = requests
            /\ \A d \in CallIds \ {c} : calls'[d] = calls[d]

C6_UpstreamFailureFrame == [][C6_Step]_vars

C6_Witness ==
    \E c, d \in CallIds :
        /\ Done(c) /\ calls[c].response = Status(404) /\ calls[c].outcome = Raise("HTTPStatusError")
        /\ Done(d) /\ calls[d].response = Timeout /\ calls[d].outcome = Raise("TransportError")

(***************************************************************************)
(* C7: SUBJECTS_INFO and SUBJECTS never change, and under every            *)
(* interleaving two calls of the same operation with the same arguments    *)
(* issue the same request and, given the same upstream response, end with  *)
(* the same outcome.                                                       *)
(***************************************************************************)
SameCall(c, d) ==
    /\ calls[c].op = calls[d].op
    /\ calls[c].subject = calls[d].subject
    /\ calls[c].transportProject = calls[d].transportProject
    /\ calls[c].endPointName = calls[d].endPointName
    /\ calls[c].sectionId = calls[d].sectionId

C7_CallsIndependent ==
    /\ SUBJECTS_INFO = SubjectCatalog
    /\ SUBJECTS = keys(SubjectCatalog)
    /\ client = Client
    /\ \A c, d \in CallIds :
          (Started(c) /\ Started(d) /\ SameCall(c, d)) =>
              /\ requests[c] = requests[d]
              /\ (Done(c) /\ Done(d) /\ calls[c].response = calls[d].response)
                 => calls[c].outcome = calls[d].outcome

C7_Witness ==
    \E c, d \in CallIds :
        /\ c # d
        /\ SameCall(c, d)
        /\ calls[c].op = "get_links" /\ calls[c].sectionId = Str(<<"S1">>)
        /\ Succeeded(c) /\ Succeeded(d)
        /\ calls[c].response = calls[d].response

(***************************************************************************)
(* C8 (as claimed): whenever a sectionId is supplied to get_links, the     *)
(* empty string included, every returned link has exactly that sectionId.  *)
(***************************************************************************)
C8_SuppliedSectionIdFilters ==
    \A c \in CallIds :
        (calls[c].op = "get_links" /\ Succeeded(c) /\ calls[c].sectionId # None
         /\ LinksOf(c).t = "list") =>
            \A i \in 1..Len(LinksOf(c).v) :
                /\ LinkError(LinksOf(c).v[i]) = "none"
                /\ LinksOf(c).v[i].v["sectionId"] = calls[c].sectionId

(***************************************************************************)
(* C9: a get_metadata, get_data or get_links call with a valid subject     *)
(* issues exactly one outbound request; no call issues a second one, a     *)
(* failed request is not retried, and a call that has ended stays ended.   *)
(***************************************************************************)
C9_Step ==
    \A c \in CallIds :
        /\ Len(requests'[c]) <= 1
        /\ (calls'[c].pc # "idle" /\ calls'[c].op \in ToolOps
            /\ \E i \in 1..Len(SubjectCatalog) : SubjectCatalog[i].id = calls'[c].subject)
           => Len(requests'[c]) = 1
        /\ calls[c].pc = "waiting" =>
              (calls'[c] = calls[c] \/ (calls'[c].pc = "done" /\ calls'[c].outcome # Pending))
        /\ calls[c].pc # "idle" => requests'[c] = requests[c]
        /\ calls[c].pc = "done" => calls'[c] = calls[c]

C9_ExactlyOneRequest == [][C9_Step]_vars

C9_Witness ==
    \E c, d \in CallIds :
        /\ calls[c].op = "get_metadata" /\ Done(c) /\ calls[c].outcome = Raise("HTTPStatusError")
        /\ Len(requests[c]) = 1
        /\ calls[d].op = "get_links" /\ Succeeded(d) /\ Len(requests[d]) = 1

(***************************************************************************)
(* C10 (as claimed): no string anywhere in an envelope returned by         *)
(* get_metadata, get_data or get_links has leading or trailing whitespace. *)
(***************************************************************************)
C10_EnvelopeFullyCleaned ==
    \A c \in CallIds :
        (calls[c].op \in ToolOps /\ Succeeded(c)) => FullyCleaned(calls[c].outcome.envelope)

(***************************************************************************)
(* C10 (amended): every envelope returned by get_metadata or get_links is  *)
(* fully cleaned; in a get_data envelope status and data are fully cleaned *)
(* and metadata echoes subject, transportProject and endPointName exactly  *)
(* as they were given; a call that fails returns no envelope.              *)
(***************************************************************************)
C10_UpstreamPartFullyCleaned ==
    \A c \in CallIds :
        (calls[c].op \in ToolOps /\ Done(c)) =>
            LET o == calls[c].outcome IN
            /\ o.result # "success" => o.envelope = None
            /\ (o.result = "success" /\ calls[c].op # "get_data") => FullyCleaned(o.envelope)
            /\ (o.result = "success" /\ calls[c].op = "get_data") =>
                  /\ FullyCleaned(o.envelope.v["status"])
                  /\ FullyCleaned(o.envelope.v["data"])
                  /\ o.envelope.v["metadata"] =
                        Dict([subject |-> Str(<<calls[c].subject>>),
                              transportProject |-> Str(calls[c].transportProject),
                              endpoint |-> Str(calls[c].endPointName)])

C10_Witness ==
    \E c, d \in CallIds :
        /\ calls[c].op = "get_data" /\ Succeeded(c)
        /\ calls[c].transportProject = <<" ", "p2">>
        /\ calls[c].response.body.t = "dict"
        /\ calls[d].op = "get_metadata" /\ Succeeded(d)
        /\ calls[d].outcome.envelope.v["data"].v["sections"].v # <<>>

====
